---- MODULE Spec2Model ----
(***************************************************************************)
(* ctxkit: the recursive configuration resolution engine of                *)
(* src/src/ctxkit/main.py (main, process_config, process_config_items and  *)
(* their helpers) as a state machine.  Text and paths are sequences of     *)
(* one-character strings, so that substitution, path joining, stripping    *)
(* and sorting are computed character by character as the code does.       *)
(***************************************************************************)
EXTENDS Integers, Sequences, FiniteSets, TLC

(***************************************************************************)
(* Characters                                                              *)
(***************************************************************************)
Lower == {"a", "b", "c", "d", "e", "f", "g", "h", "i", "j", "k", "l", "m",
          "n", "o", "p", "q", "r", "s", "t", "u", "v", "w", "x", "y", "z"}

Upper == {"A", "B", "C", "D", "E", "F", "G", "H", "I", "J", "K", "L", "M",
          "N", "O", "P", "Q", "R", "S", "T", "U", "V", "W", "X", "Y", "Z"}

Digit == {"0", "1", "2", "3", "4", "5", "6", "7", "8", "9"}

\* \s of the regular expressions and the characters str.strip() removes
Space == {" ", "\n", "\t"}

\* [_a-zA-Z] and \w of _R_VARIABLE
IdentStart == Lower \cup Upper \cup {"_"}
WordChar == IdentStart \cup Digit

\* The characters of the model's paths and texts in code-point order, the
\* order Python compares strings in.
CodePoints == <<"\t", "\n", " ", "\"", ",", "-", ".", "/",
                "0", "1", "2", "3", "4", "5", "6", "7", "8", "9",
                ":", "<", ">",
                "A", "B", "C", "D", "E", "F", "G", "H", "I", "J", "K", "L", "M",
                "N", "O", "P", "Q", "R", "S", "T", "U", "V", "W", "X", "Y", "Z",
                "_",
                "a", "b", "c", "d", "e", "f", "g", "h", "i", "j", "k", "l", "m",
                "n", "o", "p", "q", "r", "s", "t", "u", "v", "w", "x", "y", "z",
                "{", "}">>

Ord(c) == CHOOSE i \in 1..Len(CodePoints) : CodePoints[i] = c

(***************************************************************************)
(* String helpers (Python str semantics on character sequences)            *)
(***************************************************************************)
\* s < t for Python strings
StrLess(s, t) ==
    \E k \in 0..Len(s) :
        /\ k <= Len(t)
        /\ \A i \in 1..k : s[i] = t[i]
        /\ \/ k = Len(s) /\ k < Len(t)
           \/ k < Len(s) /\ k < Len(t) /\ Ord(s[k + 1]) < Ord(t[k + 1])

\* the first index >= i whose character is not in S, Len(s) + 1 if none
SkipIn(s, i, S) ==
    IF \E j \in i..Len(s) : s[j] \notin S
    THEN CHOOSE j \in i..Len(s) : s[j] \notin S /\ \A k \in i..(j - 1) : s[k] \in S
    ELSE Len(s) + 1

\* the last index whose character is not in S, 0 if none
LastNotIn(s, S) ==
    IF \E j \in 1..Len(s) : s[j] \notin S
    THEN CHOOSE j \in 1..Len(s) : s[j] \notin S /\ \A k \in (j + 1)..Len(s) : s[k] \in S
    ELSE 0

\* str.strip()
Strip(s) == SubSeq(s, SkipIn(s, 1, Space), LastNotIn(s, Space))

\* str.rfind(c) + 1: the index of the last c, 0 if none
RFind(s, c) ==
    IF \E j \in 1..Len(s) : s[j] = c
    THEN CHOOSE j \in 1..Len(s) : s[j] = c /\ \A k \in (j + 1)..Len(s) : s[k] # c
    ELSE 0

StartsWith(s, p) == Len(s) >= Len(p) /\ SubSeq(s, 1, Len(p)) = p

RECURSIVE JoinWith(_, _)
\* sep.join(parts)
JoinWith(parts, sep) ==
    IF Len(parts) = 0 THEN <<>>
    ELSE IF Len(parts) = 1 THEN parts[1]
    ELSE parts[1] \o sep \o JoinWith(Tail(parts), sep)

RECURSIVE Decimal(_)
\* str(n) for an integer n
Decimal(n) ==
    IF n < 0 THEN <<"-">> \o Decimal(0 - n)
    ELSE IF n < 10 THEN <<CodePoints[Ord("0") + n]>>
    ELSE Decimal(n \div 10) \o <<CodePoints[Ord("0") + (n % 10)]>>

RECURSIVE SplitOn(_, _)
\* str.split(c)
SplitOn(s, c) ==
    IF \E i \in 1..Len(s) : s[i] = c
    THEN LET i == CHOOSE i \in 1..Len(s) : s[i] = c /\ \A k \in 1..(i - 1) : s[k] # c
         IN <<SubSeq(s, 1, i - 1)>> \o SplitOn(SubSeq(s, i + 1, Len(s)), c)
    ELSE <<s>>

(***************************************************************************)
(* posixpath                                                               *)
(***************************************************************************)
IsAbs(p) == Len(p) > 0 /\ p[1] = "/"

PathJoin(a, b) ==
    IF IsAbs(b) THEN b
    ELSE IF a = <<>> \/ a[Len(a)] = "/" THEN a \o b
    ELSE a \o <<"/">> \o b

RECURSIVE NormComps(_, _, _)
\* the component loop of posixpath.normpath
NormComps(comps, new, rooted) ==
    IF comps = <<>> THEN new
    ELSE LET c == Head(comps)
             dotdot == <<".", ".">>
         IN IF c = <<>> \/ c = <<".">> THEN NormComps(Tail(comps), new, rooted)
            ELSE IF \/ c # dotdot
                    \/ (~rooted /\ new = <<>>)
                    \/ (new # <<>> /\ new[Len(new)] = dotdot)
                 THEN NormComps(Tail(comps), Append(new, c), rooted)
            ELSE IF new # <<>>
                 THEN NormComps(Tail(comps), SubSeq(new, 1, Len(new) - 1), rooted)
            ELSE NormComps(Tail(comps), new, rooted)

\* os.path.normpath
NormPath(p) ==
    IF p = <<>> THEN <<".">>
    ELSE LET slashes == IF ~IsAbs(p) THEN <<>>
                        ELSE IF StartsWith(p, <<"/", "/">>) /\ ~StartsWith(p, <<"/", "/", "/">>)
                             THEN <<"/", "/">>
                             ELSE <<"/">>
             body == JoinWith(NormComps(SplitOn(p, "/"), <<>>, IsAbs(p)), <<"/">>)
             path == slashes \o body
         IN IF path = <<>> THEN <<".">> ELSE path

\* the head of os.path.split
SplitHead(p) ==
    LET i == RFind(p, "/")
        head == SubSeq(p, 1, i)
    IN IF head # <<>> /\ LastNotIn(head, {"/"}) # 0
       THEN SubSeq(head, 1, LastNotIn(head, {"/"}))
       ELSE head

\* the tail of os.path.split
SplitTail(p) == SubSeq(p, RFind(p, "/") + 1, Len(p))

\* os.path.dirname
DirName(p) == SplitHead(p)

\* os.path.splitext(name)[1]
SplitExt(p) ==
    LET sep == RFind(p, "/")
        dot == RFind(p, ".")
    IN IF dot > sep /\ \E k \in (sep + 1)..(dot - 1) : p[k] # "."
       THEN SubSeq(p, dot, Len(p))
       ELSE <<>>

\* str.lstrip(".")
LStripDot(s) == SubSeq(s, SkipIn(s, 1, {"."}), Len(s))

(***************************************************************************)
(* Variable references and URLs                                            *)
(***************************************************************************)
\* _R_URL = ^[a-z]+:
IsUrl(path) ==
    LET j == SkipIn(path, 1, Lower)
    IN j > 1 /\ j <= Len(path) /\ path[j] = ":"

\* A match of _R_VARIABLE = \{\{\s*([_a-zA-Z]\w*)\s*\}\} starting at index i:
\* the index after the match and the name, or end = 0 when there is none.
\* The character classes of adjacent parts are disjoint, so the greedy
\* match never backtracks.
MatchVariable(text, i) ==
    LET n == Len(text)
        b == SkipIn(text, i + 2, Space)
        c == SkipIn(text, b + 1, WordChar)
        d == SkipIn(text, c, Space)
    IN IF /\ i + 1 <= n /\ text[i] = "{" /\ text[i + 1] = "{"
          /\ b <= n /\ text[b] \in IdentStart
          /\ d + 1 <= n /\ text[d] = "}" /\ text[d + 1] = "}"
       THEN [end |-> d + 2, name |-> SubSeq(text, b, c - 1)]
       ELSE [end |-> 0, name |-> <<>>]

\* the mutant of ReplaceVariablesMatch: an unknown reference is left as it is
ReplaceVariablesMatchKeep(variables, name) ==
    IF name \in DOMAIN variables THEN variables[name]
    ELSE <<"{", "{">> \o name \o <<"}", "}">>

\* _replace_variables_match: str(variables.get(var_name, ''))
ReplaceVariablesMatch(variables, name) ==
    IF name \in DOMAIN variables THEN variables[name] ELSE <<>>

RECURSIVE ReplaceFrom(_, _, _)
\* re.sub from index i: leftmost non-overlapping matches, one pass
ReplaceFrom(text, i, variables) ==
    IF i > Len(text) THEN <<>>
    ELSE LET m == MatchVariable(text, i)
         IN IF m.end # 0
            THEN ReplaceVariablesMatch(variables, m.name) \o ReplaceFrom(text, m.end, variables)
            ELSE <<text[i]>> \o ReplaceFrom(text, i + 1, variables)

\* the mutant of ReplaceVariables: the result is scanned once more
ReplaceVariablesTwice(text, variables) ==
    ReplaceFrom(ReplaceFrom(text, 1, variables), 1, variables)

\* _replace_variables
ReplaceVariables(text, variables) == ReplaceFrom(text, 1, variables)

\* the mutant of SetVariable: a name already defined keeps its value
SetVariableKeepFirst(variables, name, value) ==
    [k \in DOMAIN variables \cup {name} |->
        IF k \in DOMAIN variables THEN variables[k] ELSE value]

\* the mutant of SetVariable: the assignment drops every other entry
SetVariableOnly(variables, name, value) == [k \in {name} |-> value]

\* variables[name] = value on a dict
SetVariable(variables, name, value) ==
    [k \in DOMAIN variables \cup {name} |-> IF k = name THEN value ELSE variables[k]]

EmptyVariables == [k \in {} |-> <<>>]

(***************************************************************************)
(* Configuration documents (CTXKIT_SMD)                                    *)
(***************************************************************************)
\* One member of the CtxKitItem union.  Every item carries every field so
\* that items are comparable; only the fields of its key are read.
Item(key, text, lines, exts, depth, name, value) ==
    [key |-> key, text |-> text, lines |-> lines, exts |-> exts, depth |-> depth,
     name |-> name, value |-> value]

ConfigItem(path) == Item("config", path, <<>>, <<>>, 0, <<>>, <<>>)
MessageItem(text) == Item("message", text, <<>>, <<>>, 0, <<>>, <<>>)
LongItem(lines) == Item("long", <<>>, lines, <<>>, 0, <<>>, <<>>)
IncludeItem(path) == Item("include", path, <<>>, <<>>, 0, <<>>, <<>>)
FileItem(path) == Item("file", path, <<>>, <<>>, 0, <<>>, <<>>)
DirItem(path, exts, depth) == Item("dir", path, <<>>, exts, depth, <<>>, <<>>)
VarItem(name, value) == Item("var", <<>>, <<>>, <<>>, 0, name, value)

ItemKeys == {"config", "message", "long", "include", "file", "dir", "var"}

\* the keys of the items that have a path
PathKeys == {"config", "include", "file", "dir"}

\* schema_markdown.validate_type(CTXKIT_TYPES, 'CtxKitConfig', config): the
\* message of the ValidationError, <<>> when the document is valid.
ValidateConfig(config) ==
    LET items == config.items
        bad == {i \in 1..Len(items) :
                   \/ items[i].key \notin ItemKeys
                   \/ items[i].key = "long" /\ items[i].lines = <<>>
                   \/ items[i].key = "dir" /\ items[i].depth < 0}
    IN IF items = <<>> THEN <<"Invalid value [] (type 'array') for member 'items', expected type 'array' [len > 0]">>
       ELSE IF bad = {} THEN <<>>
       ELSE LET i == CHOOSE i \in bad : \A j \in bad : i <= j
            IN IF items[i].key \notin ItemKeys
               THEN <<"Unknown member 'items.">> \o Decimal(i - 1) \o <<".", items[i].key, "'">>
               ELSE <<"Invalid value for member 'items.">> \o Decimal(i - 1) \o <<".", items[i].key, "'">>

(***************************************************************************)
(* The environment: files, directories and URLs                            *)
(***************************************************************************)
\* Paths and texts of the model
P_a == <<"a", ".", "t">>
P_b == <<"b", ".", "t">>
P_e == <<"e", ".", "t">>
P_k == <<"k", ".", "j">>
P_sn == <<"s", "/", "n", ".", "j">>
P_sa == <<"s", "/", "a", ".", "t">>
P_sum == <<"s", "/", "u", "/", "m", ".", "j">>
P_ra == <<"/", "r", "/", "a", ".", "t">>
P_db == <<"d", "/", "b", ".", "t">>
P_dr == <<"d", "/", "r", ".", "m">>
P_dz == <<"d", "/", "z", ".", "b">>
P_dac == <<"d", "/", "a", "/", "c", ".", "t">>
P_dagh == <<"d", "/", "a", "/", "g", "/", "h", ".", "t">>
P_fp == <<"f", ".", "p">>
U_a == <<"h", ":", "a">>
U_b == <<"h", ":", "b">>
U_ab == <<"a", ":", "b">>

RefX == <<"{", "{", "x", "}", "}">>
RefY == <<"{", "{", " ", "y", " ", "}", "}">>
RefZ == <<"{", "{", "z", "}", "}">>
RefP == <<"{", "{", "p", "}", "}">>

\* The nested configuration s/n.j
DocN == [items |-> <<MessageItem(RefX \o RefY),
                     FileItem(P_a),
                     VarItem(<<"x">>, <<"a">>),
                     ConfigItem(<<"u", "/", "m", ".", "j">>),
                     IncludeItem(RefX \o <<":", "b">>),
                     LongItem(<<RefX \o RefZ, RefY>>),
                     DirItem(<<".", ".">>, <<<<"j">>, <<".", "m">>>>, 2)>>]

\* The nested configuration s/u/m.j
DocM == [items |-> <<VarItem(<<"y">>, RefX),
                     VarItem(<<"p">>, <<"/", "r", "/", ".", ".">>),
                     MessageItem(RefX \o RefY),
                     FileItem(RefP \o <<"/", "r", "/", "a", ".", "t">>),
                     IncludeItem(<<".", ".", "/", ".", ".", "/", "e", ".", "t">>)>>]

\* The invalid configuration k.j
DocK == [items |-> <<Item("invalid", <<"v">>, <<>>, <<>>, 0, <<>>, <<>>)>>]

\* json.loads: the JSON texts of the configuration files are abbreviated to
\* one token each; any other text is not JSON.
JsonLoads(text) ==
    CASE text = <<"N">> -> [ok |-> TRUE, config |-> DocN]
      [] text = <<"M">> -> [ok |-> TRUE, config |-> DocM]
      [] text = <<"K">> -> [ok |-> TRUE, config |-> DocK]
      [] OTHER -> [ok |-> FALSE, config |-> [items |-> <<>>]]

\* The regular files: content as stored, and whether it decodes as UTF-8
File(content, utf8) == [content |-> content, utf8 |-> utf8]

Files ==
    (P_a :> File(<<" ", "A", "\n">>, TRUE)) @@
    (P_fp :> File(<<"F", "\n">>, TRUE)) @@
    (P_b :> File(<<"B">>, TRUE)) @@
    (P_e :> File(<<"\n">>, TRUE)) @@
    (P_k :> File(<<"K">>, TRUE)) @@
    (P_sn :> File(<<"N", "\n">>, TRUE)) @@
    (P_sa :> File(<<"S", " ", "S">>, TRUE)) @@
    (P_sum :> File(<<"M">>, TRUE)) @@
    (P_ra :> File(<<"R">>, TRUE)) @@
    (P_db :> File(<<"D", "\n", "B", "\n">>, TRUE)) @@
    (P_dr :> File(<<"R">>, TRUE)) @@
    (P_dz :> File(<<"Z">>, FALSE)) @@
    (P_dac :> File(<<" ">>, TRUE)) @@
    (P_dagh :> File(<<"H">>, TRUE))

\* What a GET of a URL answers; a URL not listed here has no server
Urls ==
    (U_a :> [status |-> 200, data |-> <<"U", " ", "A", "\n">>]) @@
    (U_b :> [status |-> 500, data |-> <<"E">>]) @@
    (U_ab :> [status |-> 200, data |-> <<"V">>])

\* The file a path names for the operating system (the working directory
\* is the directory the relative paths of Files are in)
OsPath(path) == NormPath(path)

\* the prefix of the paths of the files below directory dir
DirPrefix(dir) ==
    IF dir = <<".">> THEN <<>>
    ELSE IF dir[Len(dir)] = "/" THEN dir
    ELSE dir \o <<"/">>

FilesBelow(dir) ==
    {f \in DOMAIN Files : /\ StartsWith(f, DirPrefix(dir))
                          /\ Len(f) > Len(DirPrefix(dir))
                          /\ IsAbs(f) = IsAbs(dir)}

IsDirectory(path) == FilesBelow(OsPath(path)) # {}

\* os.scandir(dir_name): the names of the entries (in no particular order)
ScanDir(dir_name) ==
    LET dir == OsPath(dir_name)
        n == Len(DirPrefix(dir))
    IN {Head(SplitOn(SubSeq(f, n + 1, Len(f)), "/")) : f \in FilesBelow(dir)}

Result(ok, text, error) == [ok |-> ok, text |-> text, error |-> error]

\* _fetch_text: the stripped text, or the message of the exception raised
FetchText(path) ==
    IF IsUrl(path)
    THEN IF path \notin DOMAIN Urls
         THEN Result(FALSE, <<>>, <<"HTTPConnectionPool: Max retries exceeded with url: ">> \o path)
         ELSE IF Urls[path].status # 200
         THEN Result(FALSE, <<>>, <<"POST ">> \o path \o <<" failed with status ">> \o Decimal(Urls[path].status))
         ELSE Result(TRUE, Strip(Urls[path].data), <<>>)
    ELSE IF OsPath(path) \in DOMAIN Files
         THEN IF Files[OsPath(path)].utf8
              THEN Result(TRUE, Strip(Files[OsPath(path)].content), <<>>)
              ELSE Result(FALSE, <<>>, <<"'utf-8' codec can't decode byte 0xff in position 0: invalid start byte">>)
         ELSE IF IsDirectory(path)
         THEN Result(FALSE, <<>>, <<"[Errno 21] Is a directory: '">> \o path \o <<"'">>)
         ELSE Result(FALSE, <<>>, <<"[Errno 2] No such file or directory: '">> \o path \o <<"'">>)

(***************************************************************************)
(* Directory enumeration                                                   *)
(***************************************************************************)
RECURSIVE GetDirectoryFilesHelperDeeper(_, _, _, _)
\* the mutant of GetDirectoryFilesHelper: the recursion stops one level later
GetDirectoryFilesHelperDeeper(dir_name, file_exts, max_depth, current_depth) ==
    IF max_depth > 0 /\ current_depth > max_depth THEN {}
    ELSE UNION {LET joined == PathJoin(dir_name, name)
                    file_path == NormPath(joined)
                IN IF OsPath(joined) \in DOMAIN Files
                   THEN IF SplitExt(name) \in {file_exts[i] : i \in 1..Len(file_exts)}
                        THEN {<<SplitHead(file_path), SplitTail(file_path), file_path>>}
                        ELSE {}
                   ELSE GetDirectoryFilesHelperDeeper(joined, file_exts, max_depth, current_depth + 1)
                : name \in ScanDir(dir_name)}

RECURSIVE GetDirectoryFilesHelper(_, _, _, _)
\* _get_directory_files_helper: the set of the tuples
\* (os.path.split(file_path), file_path) it yields, as <<head, tail, path>>
GetDirectoryFilesHelper(dir_name, file_exts, max_depth, current_depth) ==
    IF max_depth > 0 /\ current_depth >= max_depth THEN {}
    ELSE UNION {LET joined == PathJoin(dir_name, name)
                    file_path == NormPath(joined)
                IN IF OsPath(joined) \in DOMAIN Files
                   THEN IF SplitExt(name) \in {file_exts[i] : i \in 1..Len(file_exts)}
                        THEN {<<SplitHead(file_path), SplitTail(file_path), file_path>>}
                        ELSE {}
                   ELSE GetDirectoryFilesHelper(joined, file_exts, max_depth, current_depth + 1)
                : name \in ScanDir(dir_name)}

\* a < b for the tuples ((head, tail), path), as Python compares tuples
TupleLess(a, b) ==
    \/ StrLess(a[1], b[1])
    \/ a[1] = b[1] /\ StrLess(a[2], b[2])
    \/ a[1] = b[1] /\ a[2] = b[2] /\ StrLess(a[3], b[3])

\* sorted(S) for a set S of tuples
SortedTuples(S) ==
    [i \in 1..Cardinality(S) |->
        CHOOSE m \in S : Cardinality({o \in S : TupleLess(o, m)}) = i - 1]

\* S sorted by the file paths alone
SortedPaths(S) ==
    [i \in 1..Cardinality(S) |->
        CHOOSE m \in S : Cardinality({o \in S : StrLess(o[3], m[3])}) = i - 1]

\* the mutant of GetDirectoryFiles: a sort of the full path strings
GetDirectoryFilesPathSort(dir_name, file_exts, max_depth) ==
    LET tuples == SortedPaths(GetDirectoryFilesHelper(dir_name, file_exts, max_depth, 0))
    IN IF ScanDir(dir_name) = {}
       THEN [ok |-> FALSE, files |-> <<>>,
             error |-> <<"[Errno 2] No such file or directory: '">> \o dir_name \o <<"'">>]
       ELSE [ok |-> TRUE, files |-> [i \in 1..Len(tuples) |-> tuples[i][3]], error |-> <<>>]

\* list(_get_directory_files(dir_name, file_exts, max_depth)): the file paths
\* of the sorted tuples, or the message of the exception os.scandir raises
GetDirectoryFiles(dir_name, file_exts, max_depth) ==
    LET tuples == SortedTuples(GetDirectoryFilesHelper(dir_name, file_exts, max_depth, 0))
    IN IF ScanDir(dir_name) = {}
       THEN [ok |-> FALSE, files |-> <<>>,
             error |-> <<"[Errno 2] No such file or directory: '">> \o dir_name \o <<"'">>]
       ELSE [ok |-> TRUE, files |-> [i \in 1..Len(tuples) |-> tuples[i][3]], error |-> <<>>]

(***************************************************************************)
(* The command line                                                        *)
(***************************************************************************)
\* the longest list of prompt items on the command line
MaxItems == 2

\* One (type_id, values) tuple of args.items (TypedItemAction)
Arg(type, values) == [type |-> type, values |-> values]

\* The prompt items the command lines of the model are made of
ArgPool ==
    {Arg("m", <<RefX \o RefY>>),
     Arg("v", <<<<"x">>, <<"b">>>>),
     Arg("c", <<P_sn>>),
     Arg("c", <<P_k>>),
     Arg("f", <<RefX \o <<".", "t">>>>),
     Arg("i", <<<<"h", ":">> \o RefX>>),
     Arg("d", <<<<"d", "/">> \o RefX>>)}

\* The -x and -l options given along with a -d item
DirOptions ==
    {[ext |-> <<<<"t">>>>, depth |-> 0],
     [ext |-> <<>>, depth |-> 0],
     [ext |-> <<<<".", "t">>>>, depth |-> 1],
     [ext |-> <<<<"t">>>>, depth |-> -1],
     [ext |-> <<<<"t">>, <<"b">>>>, depth |-> 0]}

\* the argparse defaults of -x and -l
DefaultOptions == [ext |-> <<>>, depth |-> 0]

\* main, "Load the config file": the item of one command-line tuple
ArgItem(arg, ext, depth) ==
    IF arg.type = "c" THEN ConfigItem(arg.values[1])
    ELSE IF arg.type = "i" THEN IncludeItem(arg.values[1])
    ELSE IF arg.type = "f" THEN FileItem(arg.values[1])
    ELSE IF arg.type = "d" THEN DirItem(arg.values[1], ext, depth)
    ELSE IF arg.type = "v" THEN VarItem(arg.values[1], arg.values[2])
    ELSE MessageItem(arg.values[1])

\* main, "Load the config file": the configuration of a command line
LoadConfig(a) ==
    [items |-> [i \in 1..Len(a.items) |-> ArgItem(a.items[i], a.ext, a.depth)]]

(***************************************************************************)
(* State                                                                   *)
(***************************************************************************)
VARIABLES
    args,      \* the parsed command line: items, ext, depth
    pc,        \* "start", "run" (inside main's for loop) or "done" (exited)
    stack,     \* the active process_config_items generators, innermost last
    heap,      \* the dict objects; a generator's "variables" is an index into it
    frags,     \* the fragments the outermost generator has yielded, in order
    stdout,    \* the characters written to sys.stdout
    stderr,    \* the lines written to sys.stderr
    status,    \* the exit status, -1 while running
    trace,     \* history: one record per item processed, in processing order
    io         \* history: the paths fetched or scanned, in order

vars == <<args, pc, stack, heap, frags, stdout, stderr, status, trace, io>>

\* One process_config_items generator: its item list and position, its
\* arguments, and the list and position of the dir item it is inside.
\* pos is the place of its configuration in the tree of configurations.
Frame(items, variables, root_dir, pos) ==
    [items |-> items, ix |-> 1, variables |-> variables, root_dir |-> root_dir,
     pos |-> pos, dir_files |-> <<>>, dir_ix |-> 0]

Top == stack[Len(stack)]
CurItem == Top.items[Top.ix]
AtItem(key) ==
    /\ pc = "run" /\ stack # <<>>
    /\ Top.ix <= Len(Top.items) /\ Top.dir_ix = 0
    /\ CurItem.key = key

\* the stack with the innermost generator replaced
WithTop(f) == [stack EXCEPT ![Len(stack)] = f]
\* the innermost generator moved to its next item
Advanced == [Top EXCEPT !.ix = @ + 1, !.dir_files = <<>>, !.dir_ix = 0]

\* the mutant of ItemPath: the URL and absolute-path tests see the text as
\* written, the references are replaced after them
ItemPathTestRaw(text, variables, root_dir) ==
    IF ~IsUrl(text) /\ ~IsAbs(text)
    THEN NormPath(PathJoin(root_dir, ReplaceVariables(text, variables)))
    ELSE ReplaceVariables(text, variables)

\* the mutant of ItemPath: an absolute path is normalised too
ItemPathNormAbs(text, variables, root_dir) ==
    LET item_path == ReplaceVariables(text, variables)
    IN IF ~IsUrl(item_path)
       THEN NormPath(PathJoin(root_dir, item_path))
       ELSE item_path

\* process_config_items, "Get the item path" and "Normalize the item path"
ItemPath(text, variables, root_dir) ==
    LET item_path == ReplaceVariables(text, variables)
    IN IF ~IsUrl(item_path) /\ ~IsAbs(item_path)
       THEN NormPath(PathJoin(root_dir, item_path))
       ELSE item_path

\* dir_exts: every extension with exactly one leading dot
DirExts(exts) == [i \in 1..Len(exts) |-> <<".">> \o LStripDot(exts[i])]

\* the mutant of FileFragment: a newline before the closing tag always
FileFragmentNewline(path, file_text) ==
    <<"<">> \o path \o <<">", "\n">> \o file_text \o <<"\n">> \o <<"<", "/">> \o path \o <<">">>

\* the f-string of the file and dir items
FileFragment(path, file_text) ==
    <<"<">> \o path \o <<">", "\n">> \o file_text
        \o (IF file_text # <<>> THEN <<"\n">> ELSE <<>>)
        \o <<"<", "/">> \o path \o <<">">>

\* the mutant of PassVariables: the nested generator gets a copy of the dict
PassVariablesCopy(h, ref) == [heap |-> Append(h, h[ref]), ref |-> Len(h) + 1]

\* the mutant of NestedRootDir: the nested generator keeps the caller's
NestedRootDirOfCaller(item_path, root_dir) == root_dir

\* the root_dir argument of the recursive call
NestedRootDir(item_path, root_dir) == DirName(item_path)

\* the variables argument of the recursive call: the same dict object
PassVariables(h, ref) == [heap |-> h, ref |-> ref]

\* the mutant of SuspendedAtConfig: the loop goes on in the rebound config
SuspendedAtConfigRebound(config) == [Advanced EXCEPT !.items = config.items]

\* the enclosing generator while the nested one runs: its for loop keeps
\* the list it started on, "config = ..." rebinds the name only
SuspendedAtConfig(config) == Advanced

\* the mutant of DirError: an empty enumeration is not an error
DirErrorSilent(listed, item_path) ==
    IF ~listed.ok THEN listed.error ELSE <<>>

\* the message of the exception a dir item raises before its for loop,
\* <<>> when it raises none
DirError(listed, item_path) ==
    IF ~listed.ok THEN listed.error
    ELSE IF listed.files = <<>> THEN <<"No files found, ", "\"">> \o item_path \o <<"\"">>
    ELSE <<>>

\* the record trace gets for the item being processed
Event(item_path) ==
    [pos |-> Append(Top.pos, Top.ix), key |-> CurItem.key, item |-> CurItem,
     root_dir |-> Top.root_dir, path |-> item_path, table |-> heap[Top.variables],
     nfrags |-> Len(frags)]

\* the record io gets for a fetch ("fetch") or an enumeration ("scan") made
\* for the item being processed
Io(op, path) == [op |-> op, path |-> path, pos |-> Append(Top.pos, Top.ix)]

\* the mutant of Printed: no blank line between fragments
PrintedNoBlank(out, ix_item, item_text) == out \o item_text \o <<"\n">>

\* print(item_text) of main's loop, after print() unless it is the first
Printed(out, ix_item, item_text) ==
    out \o (IF ix_item # 0 THEN <<"\n">> ELSE <<>>) \o item_text \o <<"\n">>

\* the mutant of Yield: the fragment is kept, nothing is printed yet
YieldBuffered(text, key, sub) ==
    /\ frags' = Append(frags, [text |-> text, pos |-> Append(Top.pos, Top.ix),
                               key |-> key, sub |-> sub])
    /\ stdout' = stdout

\* a fragment yielded to main's loop, which prints it
Yield(text, key, sub) ==
    /\ frags' = Append(frags, [text |-> text, pos |-> Append(Top.pos, Top.ix),
                               key |-> key, sub |-> sub])
    /\ stdout' = Printed(stdout, Len(frags), text)

\* the mutant of Raise: the error is reported and the next item processed
RaiseAndGoOn(message) ==
    /\ stderr' = Append(stderr, <<"Error: ">> \o message)
    /\ status' = status
    /\ pc' = pc
    /\ stack' = WithTop(Advanced)
    /\ UNCHANGED <<frags, stdout, heap>>

\* an exception raised in a generator: main's except clause
Raise(message) ==
    /\ stderr' = Append(stderr, <<"Error: ">> \o message)
    /\ status' = 2
    /\ pc' = "done"
    /\ stack' = <<>>
    /\ UNCHANGED <<frags, stdout, heap>>

(***************************************************************************)
(* Init and main                                                           *)
(***************************************************************************)
HasDir(items) == \E i \in 1..Len(items) : items[i].type = "d"

Init ==
    /\ args \in {[items |-> items, ext |-> o.ext, depth |-> o.depth] :
                    items \in UNION {[1..n -> ArgPool] : n \in 0..MaxItems},
                    o \in DirOptions \cup {DefaultOptions}}
    /\ HasDir(args.items) \/ [ext |-> args.ext, depth |-> args.depth] = DefaultOptions
    /\ pc = "start"
    /\ stack = <<>>
    /\ heap = <<>>
    /\ frags = <<>>
    /\ stdout = <<>>
    /\ stderr = <<>>
    /\ status = -1
    /\ trace = <<>>
    /\ io = <<>>

\* main up to its for loop: the configuration is built and validated, and
\* process_config_items(config, {}) is created with root_dir '.'
Start ==
    /\ pc = "start"
    /\ LET config == LoadConfig(args)
           invalid == ValidateConfig(config)
       IN IF config.items = <<>>
          THEN \* parser.error: usage and message on stderr, exit status 2
               /\ stderr' = <<<<"usage: ctxkit">>, <<"ctxkit: error: no prompt items specified">>>>
               /\ status' = 2
               /\ pc' = "done"
               /\ UNCHANGED <<stack, heap>>
          ELSE IF invalid # <<>>
          THEN \* validate_type raises outside the try: the interpreter
               \* prints the traceback and exits with status 1
               /\ stderr' = <<<<"Traceback (most recent call last):">>,
                              <<"schema_markdown.schema_util.ValidationError: ">> \o invalid>>
               /\ status' = 1
               /\ pc' = "done"
               /\ UNCHANGED <<stack, heap>>
          ELSE /\ heap' = <<EmptyVariables>>
               /\ stack' = <<Frame(config.items, 1, <<".">>, <<>>)>>
               /\ pc' = "run"
               /\ UNCHANGED <<stderr, status>>
    /\ UNCHANGED <<args, frags, stdout, trace, io>>

(***************************************************************************)
(* process_config_items: one action per kind of item                       *)
(***************************************************************************)
\* A config item: the configuration is fetched, parsed and validated, and
\* the nested generator started.  The for loop of this generator keeps
\* iterating the list it started on; "config" is only rebound.
Config ==
    /\ AtItem("config")
    /\ LET item_path == ItemPath(CurItem.text, heap[Top.variables], Top.root_dir)
           fetched == FetchText(item_path)
           loaded == JsonLoads(fetched.text)
           invalid == ValidateConfig(loaded.config)
           passed == PassVariables(heap, Top.variables)
       IN /\ trace' = Append(trace, Event(item_path))
          /\ io' = Append(io, Io("fetch", item_path))
          /\ IF ~fetched.ok THEN Raise(fetched.error)
             ELSE IF ~loaded.ok THEN Raise(<<"Expecting value: line 1 column 1 (char 0)">>)
             ELSE IF invalid # <<>> THEN Raise(invalid)
             ELSE /\ heap' = passed.heap
                  /\ stack' = Append(WithTop(SuspendedAtConfig(loaded.config)),
                                     Frame(loaded.config.items, passed.ref,
                                           NestedRootDir(item_path, Top.root_dir),
                                           Append(Top.pos, Top.ix)))
                  /\ UNCHANGED <<pc, frags, stdout, stderr, status>>
    /\ UNCHANGED args

\* An include item: the fetched text is the fragment
Include ==
    /\ AtItem("include")
    /\ LET item_path == ItemPath(CurItem.text, heap[Top.variables], Top.root_dir)
           fetched == FetchText(item_path)
       IN /\ trace' = Append(trace, Event(item_path))
          /\ io' = Append(io, Io("fetch", item_path))
          /\ IF ~fetched.ok THEN Raise(fetched.error)
             ELSE /\ Yield(fetched.text, "include", 0)
                  /\ stack' = WithTop(Advanced)
                  /\ UNCHANGED <<pc, heap, stderr, status>>
    /\ UNCHANGED args

\* A file item: the fetched text between the tags of its path
FileStep ==
    /\ AtItem("file")
    /\ LET item_path == ItemPath(CurItem.text, heap[Top.variables], Top.root_dir)
           fetched == FetchText(item_path)
       IN /\ trace' = Append(trace, Event(item_path))
          /\ io' = Append(io, Io("fetch", item_path))
          /\ IF ~fetched.ok THEN Raise(fetched.error)
             ELSE /\ Yield(FileFragment(item_path, fetched.text), "file", 0)
                  /\ stack' = WithTop(Advanced)
                  /\ UNCHANGED <<pc, heap, stderr, status>>
    /\ UNCHANGED args

\* A dir item, up to its for loop: the files are enumerated, all of them
\* before the first is fetched
Dir ==
    /\ AtItem("dir")
    /\ LET item_path == ItemPath(CurItem.text, heap[Top.variables], Top.root_dir)
           dir_exts == DirExts(CurItem.exts)
           listed == GetDirectoryFiles(item_path, dir_exts, CurItem.depth)
       IN /\ trace' = Append(trace, Event(item_path))
          /\ io' = Append(io, Io("scan", item_path))
          /\ IF DirError(listed, item_path) # <<>> THEN Raise(DirError(listed, item_path))
             ELSE /\ stack' = WithTop(IF listed.files = <<>> THEN Advanced
                                      ELSE [Top EXCEPT !.dir_files = listed.files, !.dir_ix = 1])
                  /\ UNCHANGED <<pc, heap, frags, stdout, stderr, status>>
    /\ UNCHANGED args

\* One turn of the for loop of a dir item: the next file is fetched and
\* yielded; after the last one the generator moves to its next item
DirFile ==
    /\ pc = "run" /\ stack # <<>> /\ Top.dir_ix > 0
    /\ LET file_path == Top.dir_files[Top.dir_ix]
           fetched == FetchText(file_path)
       IN /\ io' = Append(io, Io("fetch", file_path))
          /\ IF ~fetched.ok THEN Raise(fetched.error)
             ELSE /\ Yield(FileFragment(file_path, fetched.text), "dir", Top.dir_ix)
                  /\ stack' = WithTop(IF Top.dir_ix = Len(Top.dir_files) THEN Advanced
                                      ELSE [Top EXCEPT !.dir_ix = @ + 1])
                  /\ UNCHANGED <<pc, heap, stderr, status>>
    /\ UNCHANGED <<args, trace>>

\* A var item: the value is assigned to the dict as it is written
Var ==
    /\ AtItem("var")
    /\ trace' = Append(trace, Event(<<>>))
    /\ heap' = [heap EXCEPT ![Top.variables] = SetVariable(@, CurItem.name, CurItem.value)]
    /\ stack' = WithTop(Advanced)
    /\ UNCHANGED <<args, pc, frags, stdout, stderr, status, io>>

\* A long item: the lines joined by newlines, then substituted
Long ==
    /\ AtItem("long")
    /\ trace' = Append(trace, Event(<<>>))
    /\ Yield(ReplaceVariables(JoinWith(CurItem.lines, <<"\n">>), heap[Top.variables]), "long", 0)
    /\ stack' = WithTop(Advanced)
    /\ UNCHANGED <<args, pc, heap, stderr, status, io>>

\* A message item
Message ==
    /\ AtItem("message")
    /\ trace' = Append(trace, Event(<<>>))
    /\ Yield(ReplaceVariables(CurItem.text, heap[Top.variables]), "message", 0)
    /\ stack' = WithTop(Advanced)
    /\ UNCHANGED <<args, pc, heap, stderr, status, io>>

\* The for loop of a nested generator ends: "yield from" returns and the
\* enclosing generator goes on with the item after its config item
Return ==
    /\ pc = "run" /\ Len(stack) > 1
    /\ Top.ix > Len(Top.items)
    /\ stack' = SubSeq(stack, 1, Len(stack) - 1)
    /\ UNCHANGED <<args, pc, heap, frags, stdout, stderr, status, trace, io>>

\* The outermost generator is exhausted: main's loop ends and main returns
Finish ==
    /\ pc = "run" /\ Len(stack) = 1
    /\ Top.ix > Len(Top.items)
    /\ stack' = <<>>
    /\ pc' = "done"
    /\ status' = 0
    /\ UNCHANGED <<args, heap, frags, stdout, stderr, trace, io>>

Next ==
    \/ Start
    \/ Config
    \/ Include
    \/ FileStep
    \/ Dir
    \/ DirFile
    \/ Var
    \/ Long
    \/ Message
    \/ Return
    \/ Finish

Spec == Init /\ [][Next]_vars

(***************************************************************************)
(* process_config: the generator run to its end, as a function             *)
(***************************************************************************)
\* what a run of a generator leaves: whether it ended without an exception,
\* the fragments it yielded, the dict, and the message of the exception
Outcome(ok, fragments, variables, error) ==
    [ok |-> ok, frags |-> fragments, variables |-> variables, error |-> error]

\* the for loop of a dir item over files: the fragments up to the first
\* file whose fetch raises
DirFragments(files, variables) ==
    LET bad == {j \in 1..Len(files) : ~FetchText(files[j]).ok}
        n == IF bad = {} THEN Len(files) ELSE (CHOOSE j \in bad : \A o \in bad : j <= o) - 1
        yielded == [j \in 1..n |-> FileFragment(files[j], FetchText(files[j]).text)]
    IN IF bad = {} THEN Outcome(TRUE, yielded, variables, <<>>)
       ELSE Outcome(FALSE, yielded, variables, FetchText(files[n + 1]).error)

\* what an item other than a config item does: the fragments it yields,
\* the dict it leaves, the exception it raises
ItemOutcome(item, item_path, fetched, listed, variables) ==
    IF item.key = "include"
    THEN IF ~fetched.ok THEN Outcome(FALSE, <<>>, variables, fetched.error)
         ELSE Outcome(TRUE, <<fetched.text>>, variables, <<>>)
    ELSE IF item.key = "file"
    THEN IF ~fetched.ok THEN Outcome(FALSE, <<>>, variables, fetched.error)
         ELSE Outcome(TRUE, <<FileFragment(item_path, fetched.text)>>, variables, <<>>)
    ELSE IF item.key = "dir"
    THEN IF DirError(listed, item_path) # <<>>
         THEN Outcome(FALSE, <<>>, variables, DirError(listed, item_path))
         ELSE DirFragments(listed.files, variables)
    ELSE IF item.key = "var"
    THEN Outcome(TRUE, <<>>, SetVariable(variables, item.name, item.value), <<>>)
    ELSE IF item.key = "long"
    THEN Outcome(TRUE, <<ReplaceVariables(JoinWith(item.lines, <<"\n">>), variables)>>,
                 variables, <<>>)
    ELSE Outcome(TRUE, <<ReplaceVariables(item.text, variables)>>, variables, <<>>)

\* what loading the configuration of a config item raises, <<>> when the
\* nested generator is started
ConfigError(fetched, loaded) ==
    IF ~fetched.ok THEN fetched.error
    ELSE IF ~loaded.ok THEN <<"Expecting value: line 1 column 1 (char 0)">>
    ELSE ValidateConfig(loaded.config)

RECURSIVE ProcessConfigItemsFrom(_, _, _, _)
\* list(process_config_items({'items': items[i:]}, variables, root_dir)).
\* Each value is bound once where the code computes it (item_path, the
\* fetched text, the outcome of the nested generator and of the rest of
\* the loop) and then read.
ProcessConfigItemsFrom(items, i, variables, root_dir) ==
    IF i > Len(items) THEN Outcome(TRUE, <<>>, variables, <<>>)
    ELSE CHOOSE outcome \in
        UNION {UNION {UNION {UNION {
            IF ~step.ok THEN {step}
            ELSE {Outcome(rest.ok, step.frags \o rest.frags, rest.variables, rest.error) :
                     rest \in {ProcessConfigItemsFrom(items, i + 1, step.variables, root_dir)}}
            : step \in
                IF items[i].key # "config"
                THEN {ItemOutcome(items[i], item_path, fetched,
                                  GetDirectoryFiles(item_path, DirExts(items[i].exts), items[i].depth),
                                  variables)}
                ELSE IF ConfigError(fetched, loaded) # <<>>
                THEN {Outcome(FALSE, <<>>, variables, ConfigError(fetched, loaded))}
                ELSE {ProcessConfigItemsFrom(loaded.config.items, 1, variables,
                                             NestedRootDir(item_path, root_dir))}}
            : loaded \in {JsonLoads(fetched.text)}}
            : fetched \in {IF items[i].key \in {"config", "include", "file"}
                           THEN FetchText(item_path) ELSE Result(TRUE, <<>>, <<>>)}}
            : item_path \in {ItemPath(items[i].text, variables, root_dir)}}
        : TRUE

\* process_config_items(config, variables, root_dir), run to its end
ProcessConfigItems(config, variables, root_dir) ==
    ProcessConfigItemsFrom(config.items, 1, variables, root_dir)

\* process_config: the fragments joined by a blank line (it raises when the
\* generator does)
ProcessConfig(config, variables, root_dir) ==
    JoinWith(ProcessConfigItems(config, variables, root_dir).frags, <<"\n", "\n">>)

(***************************************************************************)
(* process_config_items called more than once by one caller                *)
(***************************************************************************)
\* the most calls one caller makes
MaxRuns == 3

\* the mutant of CallVariables: a dict kept by the module between calls
CallVariablesKept(passed, kept) == kept

\* the variables a call starts with: the dict the caller passes; the
\* parameter has no default and the module keeps no dict of its own
CallVariables(passed, kept) == passed

\* the record of one call: the table as passed, whether it is the dict
\* object of the call before, and what the generator, run to its end, left
Run(start, same, outcome) == [start |-> start, same |-> same, outcome |-> outcome]

\* list(process_config_items(config, variables, '.')) with the dict at
\* heap[ref] (an index past the heap: a new empty dict); the dict is left
\* as the var items processed made it
Call(ref, same) ==
    LET passed == IF ref > Len(heap) THEN EmptyVariables ELSE heap[ref]
        kept == IF heap = <<>> THEN EmptyVariables ELSE heap[Len(heap)]
        outcome == ProcessConfigItems(LoadConfig(args), CallVariables(passed, kept), <<".">>)
    IN /\ trace' = Append(trace, Run(passed, same, outcome))
       /\ heap' = IF ref > Len(heap) THEN Append(heap, outcome.variables)
                  ELSE [heap EXCEPT ![ref] = outcome.variables]
       /\ UNCHANGED <<args, pc, stack, frags, stdout, stderr, status, io>>

\* a caller with a valid configuration that has not called yet
InitCaller ==
    /\ Init
    /\ LoadConfig(args).items # <<>>
    /\ ValidateConfig(LoadConfig(args)) = <<>>

\* the first call, with an empty dict as main passes it
FirstCall ==
    /\ trace = <<>>
    /\ Call(1, FALSE)

\* a later call with the dict object the call before was given
CallSameDict ==
    /\ Len(trace) \in 1..(MaxRuns - 1)
    /\ Call(Len(heap), TRUE)

\* a later call with a new empty dict
CallNewDict ==
    /\ Len(trace) \in 1..(MaxRuns - 1)
    /\ Call(Len(heap) + 1, FALSE)

NextCaller ==
    \/ FirstCall
    \/ CallSameDict
    \/ CallNewDict

SpecCaller == InitCaller /\ [][NextCaller]_vars

(***************************************************************************)
(* file-prompt: main and _process_config of src/src/file_prompt/main.py    *)
(***************************************************************************)
UrlItem(url) == Item("url", url, <<>>, <<>>, 0, <<>>, <<>>)

\* the members of the FilePromptItem union
FpItemKeys == {"config", "message", "long", "file", "dir", "url"}

\* schema_markdown.validate_type(FILE_PROMPT_TYPES, 'FilePromptConfig', config):
\* the message of the ValidationError, <<>> when the document is valid
FpValidateConfig(config) ==
    LET items == config.items
        bad == {i \in 1..Len(items) :
                   \/ items[i].key \notin FpItemKeys
                   \/ items[i].key = "long" /\ items[i].lines = <<>>
                   \/ items[i].key = "dir" /\ items[i].depth < 0}
    IN IF items = <<>> THEN <<"Invalid value [] (type 'array') for member 'items', expected type 'array' [len > 0]">>
       ELSE IF bad = {} THEN <<>>
       ELSE <<"Invalid value for member 'items.">>
                \o Decimal((CHOOSE i \in bad : \A j \in bad : i <= j) - 1) \o <<"'">>

\* The file-prompt configuration f.p
DocF == [items |-> <<MessageItem(<<"B">>),
                     LongItem(<<<<"L">>, <<"M">>>>),
                     DirItem(<<"d">>, <<<<"t">>>>, 1)>>]

\* json.load of a configuration file (abbreviated to one token)
FpJsonLoad(content) ==
    IF Strip(content) = <<"F">> THEN [ok |-> TRUE, config |-> DocF]
    ELSE [ok |-> FALSE, config |-> [items |-> <<>>]]

\* open(path).read(): the content, or the message of the exception
FpRead(path) ==
    IF OsPath(path) \in DOMAIN Files
    THEN IF Files[OsPath(path)].utf8
         THEN Result(TRUE, Files[OsPath(path)].content, <<>>)
         ELSE Result(FALSE, <<>>, <<"UnicodeDecodeError">>)
    ELSE IF IsDirectory(path) THEN Result(FALSE, <<>>, <<"IsADirectoryError">>)
    ELSE Result(FALSE, <<>>, <<"FileNotFoundError">>)

\* urllib.request.urlopen(url).read(): the body, or the message of the
\* exception
FpUrlOpen(url) ==
    IF url \in DOMAIN Urls /\ Urls[url].status = 200
    THEN Result(TRUE, Urls[url].data, <<>>)
    ELSE Result(FALSE, <<>>, <<"urllib.error.URLError">>)

RECURSIVE FpGetDirectoryFilesHelper(_, _, _, _)
\* _get_directory_files_helper of file-prompt: the set of the paths it yields
FpGetDirectoryFilesHelper(dir_name, file_exts, max_depth, current_depth) ==
    IF max_depth > 0 /\ current_depth > max_depth THEN {}
    ELSE UNION {LET joined == PathJoin(dir_name, name)
                IN IF OsPath(joined) \in DOMAIN Files
                   THEN IF SplitExt(name) \in {file_exts[i] : i \in 1..Len(file_exts)}
                        THEN {NormPath(joined)}
                        ELSE {}
                   ELSE FpGetDirectoryFilesHelper(joined, file_exts, max_depth, current_depth + 1)
                : name \in ScanDir(dir_name)}

\* _get_directory_files of file-prompt: sorted(...) of the paths, or the
\* message of the exception os.scandir raises
FpGetDirectoryFiles(dir_name, file_exts, max_depth) ==
    LET S == FpGetDirectoryFilesHelper(dir_name, file_exts, max_depth, 0)
    IN IF ScanDir(dir_name) = {}
       THEN [ok |-> FALSE, files |-> <<>>, error |-> <<"FileNotFoundError">>]
       ELSE [ok |-> TRUE,
             files |-> [i \in 1..Cardinality(S) |->
                           CHOOSE m \in S : Cardinality({o \in S : StrLess(o, m)}) = i - 1],
             error |-> <<>>]

\* The prompt items the file-prompt command lines of the model are made of
FpArgPool ==
    {Arg("m", <<<<"A">>>>),
     Arg("c", <<P_fp>>),
     Arg("f", <<P_a>>),
     Arg("f", <<P_dz>>),
     Arg("d", <<<<"d">>>>),
     Arg("u", <<U_a>>)}

\* The -x and -l options given along with a -d item
FpDirOptions ==
    {[ext |-> <<<<"t">>>>, depth |-> 0],
     [ext |-> <<>>, depth |-> 1]}

\* main of file-prompt, "Load the config file"
FpLoadConfig(a) ==
    [items |-> [i \in 1..Len(a.items) |->
        LET arg == a.items[i]
        IN IF arg.type = "c" THEN ConfigItem(arg.values[1])
           ELSE IF arg.type = "f" THEN FileItem(arg.values[1])
           ELSE IF arg.type = "d" THEN DirItem(arg.values[1], a.ext, a.depth)
           ELSE IF arg.type = "u" THEN UrlItem(arg.values[1])
           ELSE MessageItem(arg.values[1])]]

\* "if ix_item != 0: print()": the index is that of the item in its own
\* configuration
FpSeparator == IF Top.ix - 1 # 0 THEN <<"\n">> ELSE <<>>

\* print(f'<{path}>')
FpOpenTag(path) == <<"<">> \o path \o <<">", "\n">>

\* the lines printed for a file or URL after its opening tag
FpBody(path, text) ==
    (IF text # <<>> THEN text \o <<"\n">> ELSE <<>>) \o <<"<", "/">> \o path \o <<">", "\n">>

\* a piece of output printed completely: frags records it without its
\* separator and without its last newline
FpPiece(printed, key, sub) ==
    frags' = Append(frags, [text |-> SubSeq(printed, 1, Len(printed) - 1),
                            pos |-> Append(Top.pos, Top.ix), key |-> key, sub |-> sub])

\* an exception: file-prompt catches none, the interpreter prints the
\* traceback and exits with status 1
FpRaise(message) ==
    /\ stderr' = <<<<"Traceback (most recent call last):">>, message>>
    /\ status' = 1
    /\ pc' = "done"
    /\ stack' = <<>>

InitFilePrompt ==
    /\ args \in {[items |-> items, ext |-> o.ext, depth |-> o.depth] :
                    items \in UNION {[1..n -> FpArgPool] : n \in 0..MaxItems},
                    o \in FpDirOptions \cup {DefaultOptions}}
    /\ HasDir(args.items) \/ [ext |-> args.ext, depth |-> args.depth] = DefaultOptions
    /\ pc = "start"
    /\ stack = <<>>
    /\ heap = <<>>
    /\ frags = <<>>
    /\ stdout = <<>>
    /\ stderr = <<>>
    /\ status = -1
    /\ trace = <<>>
    /\ io = <<>>

\* main of file-prompt up to the call of _process_config
FpStart ==
    /\ pc = "start"
    /\ IF FpValidateConfig(FpLoadConfig(args)) # <<>>
       THEN FpRaise(FpValidateConfig(FpLoadConfig(args)))
       ELSE /\ stack' = <<Frame(FpLoadConfig(args).items, 0, <<".">>, <<>>)>>
            /\ pc' = "run"
            /\ UNCHANGED <<stderr, status>>
    /\ UNCHANGED <<args, heap, frags, stdout, trace, io>>

\* A config item: the file is loaded and validated and _process_config
\* called for it; nothing is printed
FpConfig ==
    /\ AtItem("config")
    /\ LET read == FpRead(CurItem.text)
           loaded == FpJsonLoad(read.text)
       IN IF ~read.ok THEN FpRaise(read.error)
          ELSE IF ~loaded.ok THEN FpRaise(<<"json.decoder.JSONDecodeError">>)
          ELSE IF FpValidateConfig(loaded.config) # <<>>
          THEN FpRaise(FpValidateConfig(loaded.config))
          ELSE /\ stack' = Append(WithTop(Advanced),
                                  Frame(loaded.config.items, 0, <<".">>, Append(Top.pos, Top.ix)))
               /\ UNCHANGED <<pc, stderr, status>>
    /\ UNCHANGED <<args, heap, frags, stdout, trace, io>>

\* A file item: separator and opening tag are printed before the file is
\* opened
FpFile ==
    /\ AtItem("file")
    /\ LET read == FpRead(CurItem.text)
           begun == FpSeparator \o FpOpenTag(CurItem.text)
           block == FpOpenTag(CurItem.text) \o FpBody(CurItem.text, Strip(read.text))
       IN IF ~read.ok
          THEN /\ stdout' = stdout \o begun
               /\ FpRaise(read.error)
               /\ UNCHANGED frags
          ELSE /\ stdout' = stdout \o FpSeparator \o block
               /\ FpPiece(block, "file", 0)
               /\ stack' = WithTop(Advanced)
               /\ UNCHANGED <<pc, stderr, status>>
    /\ UNCHANGED <<args, heap, trace, io>>

\* A dir item up to its for loop: sorted(...) lists every file first
FpDir ==
    /\ AtItem("dir")
    /\ LET listed == FpGetDirectoryFiles(CurItem.text, DirExts(CurItem.exts), CurItem.depth)
       IN IF ~listed.ok THEN FpRaise(listed.error)
          ELSE /\ stack' = WithTop(IF listed.files = <<>> THEN Advanced
                                   ELSE [Top EXCEPT !.dir_files = listed.files, !.dir_ix = 1])
               /\ UNCHANGED <<pc, stderr, status>>
    /\ UNCHANGED <<args, heap, frags, stdout, trace, io>>

\* One turn of the for loop of a dir item
FpDirFile ==
    /\ pc = "run" /\ stack # <<>> /\ Top.dir_ix > 0
    /\ LET file_path == Top.dir_files[Top.dir_ix]
           read == FpRead(file_path)
           block == FpOpenTag(file_path) \o FpBody(file_path, Strip(read.text))
       IN IF ~read.ok
          THEN /\ stdout' = stdout \o FpSeparator \o FpOpenTag(file_path)
               /\ FpRaise(read.error)
               /\ UNCHANGED frags
          ELSE /\ stdout' = stdout \o FpSeparator \o block
               /\ FpPiece(block, "dir", Top.dir_ix)
               /\ stack' = WithTop(IF Top.dir_ix = Len(Top.dir_files) THEN Advanced
                                   ELSE [Top EXCEPT !.dir_ix = @ + 1])
               /\ UNCHANGED <<pc, stderr, status>>
    /\ UNCHANGED <<args, heap, trace, io>>

\* A url item
FpUrl ==
    /\ AtItem("url")
    /\ LET response == FpUrlOpen(CurItem.text)
           block == FpOpenTag(CurItem.text) \o FpBody(CurItem.text, Strip(response.text))
       IN IF ~response.ok
          THEN /\ stdout' = stdout \o FpSeparator \o FpOpenTag(CurItem.text)
               /\ FpRaise(response.error)
               /\ UNCHANGED frags
          ELSE /\ stdout' = stdout \o FpSeparator \o block
               /\ FpPiece(block, "url", 0)
               /\ stack' = WithTop(Advanced)
               /\ UNCHANGED <<pc, stderr, status>>
    /\ UNCHANGED <<args, heap, trace, io>>

\* A long item: one print per line
FpLong ==
    /\ AtItem("long")
    /\ stdout' = stdout \o FpSeparator \o JoinWith(CurItem.lines, <<"\n">>) \o <<"\n">>
    /\ FpPiece(JoinWith(CurItem.lines, <<"\n">>) \o <<"\n">>, "long", 0)
    /\ stack' = WithTop(Advanced)
    /\ UNCHANGED <<args, pc, heap, stderr, status, trace, io>>

\* A message item
FpMessage ==
    /\ AtItem("message")
    /\ stdout' = stdout \o FpSeparator \o CurItem.text \o <<"\n">>
    /\ FpPiece(CurItem.text \o <<"\n">>, "message", 0)
    /\ stack' = WithTop(Advanced)
    /\ UNCHANGED <<args, pc, heap, stderr, status, trace, io>>

\* A nested _process_config returns
FpReturn ==
    /\ pc = "run" /\ Len(stack) > 1
    /\ Top.ix > Len(Top.items)
    /\ stack' = SubSeq(stack, 1, Len(stack) - 1)
    /\ UNCHANGED <<args, pc, heap, frags, stdout, stderr, status, trace, io>>

\* The outermost _process_config returns, and main
FpFinish ==
    /\ pc = "run" /\ Len(stack) = 1
    /\ Top.ix > Len(Top.items)
    /\ stack' = <<>>
    /\ pc' = "done"
    /\ status' = 0
    /\ UNCHANGED <<args, heap, frags, stdout, stderr, trace, io>>

NextFilePrompt ==
    \/ FpStart
    \/ FpConfig
    \/ FpFile
    \/ FpDir
    \/ FpDirFile
    \/ FpUrl
    \/ FpLong
    \/ FpMessage
    \/ FpReturn
    \/ FpFinish

SpecFilePrompt == InitFilePrompt /\ [][NextFilePrompt]_vars

(***************************************************************************)
(* Vocabulary of the properties                                            *)
(***************************************************************************)
\* the configuration main validated
TopConfig == LoadConfig(args)

Finished == pc = "done" /\ status = 0

\* the record of trace for the item at place p of the tree
EventAt(p) == CHOOSE e \in {trace[k] : k \in 1..Len(trace)} : e.pos = p

\* the configuration the config item recorded in e loaded
LoadedBy(e) == JsonLoads(FetchText(e.path).text).config

\* the files the dir item recorded in e enumerated
ListedBy(e) == GetDirectoryFiles(e.path, DirExts(e.item.exts), e.item.depth).files

\* p comes before q in a depth-first, left-to-right walk (p, q: places of
\* items, each a sequence of 1-based indexes from the top configuration down)
PosLess(p, q) ==
    \E k \in 0..Len(p) :
        /\ k <= Len(q)
        /\ \A i \in 1..k : p[i] = q[i]
        /\ \/ k = Len(p) /\ k < Len(q)
           \/ k < Len(p) /\ k < Len(q) /\ p[k + 1] < q[k + 1]

\* the place in the fragment sequence of a fragment: its item and, for a
\* file of a dir item, the file's number
Place(f) == [pos |-> f.pos, sub |-> f.sub, key |-> f.key]

\* the items of the configuration at place p of the tree (<<>>: the top)
ItemsAt(p) == IF p = <<>> THEN TopConfig.items ELSE LoadedBy(EventAt(p)).items

\* the place of the configuration that holds the item at place p
Parent(p) == SubSeq(p, 1, Len(p) - 1)

PlaceLess(f, g) == PosLess(f.pos, g.pos) \/ (f.pos = g.pos /\ f.sub < g.sub)

(***************************************************************************)
(* C1  Fragment order is the depth-first flattening of the item tree       *)
(***************************************************************************)
RECURSIVE FlattenFrom(_, _, _)
\* The depth-first, left-to-right flattening of the items from the i-th on
\* of the configuration at place pos: one place per message, long, include
\* and file item, none per var item, one per enumerated file of a dir item,
\* and for a config item the flattening of the configuration it loaded.
FlattenFrom(items, pos, i) ==
    IF i > Len(items) THEN <<>>
    ELSE LET p == Append(pos, i)
             key == items[i].key
             here == IF key = "var" THEN <<>>
                     ELSE IF key = "config" THEN FlattenFrom(LoadedBy(EventAt(p)).items, p, 1)
                     ELSE IF key = "dir"
                     THEN [j \in 1..Len(ListedBy(EventAt(p))) |-> [pos |-> p, sub |-> j, key |-> key]]
                     ELSE <<[pos |-> p, sub |-> 0, key |-> key]>>
         IN here \o FlattenFrom(items, pos, i + 1)

\* C1: when a run completes, the fragments yielded are, one for one and in
\* order, the depth-first left-to-right flattening of the item tree (the
\* items after a config item included, after the nested fragments); and at
\* every moment the fragments yielded so far are in that order and every
\* item processed is the item of the tree at its place.
C1_DepthFirstOrder ==
    /\ \A i, j \in 1..Len(frags) : i < j => PlaceLess(frags[i], frags[j])
    /\ \A k \in 1..Len(trace) :
          /\ trace[k].pos[Len(trace[k].pos)] <= Len(ItemsAt(Parent(trace[k].pos)))
          /\ trace[k].item = ItemsAt(Parent(trace[k].pos))[trace[k].pos[Len(trace[k].pos)]]
    /\ Finished =>
          [j \in 1..Len(frags) |-> Place(frags[j])] = FlattenFrom(TopConfig.items, <<>>, 1)

\* a completed run with a fragment of a configuration nested twice, then
\* the second file of a dir item of the nested configuration, then a
\* fragment of an item that follows the config item at the top
C1_Witness ==
    /\ Finished
    /\ \E i, j, k \in 1..Len(frags) :
          /\ i < j /\ j < k
          /\ Len(frags[i].pos) = 3
          /\ Len(frags[j].pos) = 2 /\ frags[j].key = "dir" /\ frags[j].sub = 2
          /\ Len(frags[k].pos) = 1

(***************************************************************************)
(* C2  A reference gets the latest earlier definition, never a later one   *)
(***************************************************************************)
\* the var items processed before the k-th item of the traversal
VarsBefore(k) == {j \in 1..(k - 1) : trace[j].key = "var"}

\* the latest of them for a name
LatestVar(k, name) ==
    CHOOSE j \in VarsBefore(k) :
        /\ trace[j].item.name = name
        /\ \A i \in VarsBefore(k) : trace[i].item.name = name => i <= j

\* name -> value of the latest var item for the name that precedes the
\* k-th item of the traversal
LatestTable(k) ==
    [name \in {trace[j].item.name : j \in VarsBefore(k)} |->
        trace[LatestVar(k, name)].item.value]

\* the path an item gets from its path text under a table and a directory
Resolved(text, table, dir) ==
    LET path == ReplaceVariables(text, table)
    IN IF IsUrl(path) \/ IsAbs(path) THEN path ELSE NormPath(PathJoin(dir, path))

\* C2: in every state, the fragment of each message and long item and the
\* path of each config, include, file and dir item processed so far is its
\* text with each reference replaced by the value of the latest var item
\* of that name that precedes it in traversal order; holding in the states
\* after later var items too, these never change it.
C2_LatestEarlierVar ==
    \A k \in 1..Len(trace) :
        LET e == trace[k]
        IN /\ e.key = "message" =>
                 frags[e.nfrags + 1].text = ReplaceVariables(e.item.text, LatestTable(k))
           /\ e.key = "long" =>
                 frags[e.nfrags + 1].text =
                     ReplaceVariables(JoinWith(e.item.lines, <<"\n">>), LatestTable(k))
           /\ e.key \in PathKeys =>
                 e.path = Resolved(e.item.text, LatestTable(k), e.root_dir)

\* x defined as b, a message referring to x yielded as "b", x redefined as
\* a, and a later message yielded with a for x
C2_Witness ==
    \E k1, k2, k3, k4 \in 1..Len(trace) :
        /\ k1 < k2 /\ k2 < k3 /\ k3 < k4
        /\ trace[k1].key = "var" /\ trace[k1].item.name = <<"x">> /\ trace[k1].item.value = <<"b">>
        /\ trace[k2].key = "message" /\ trace[k2].item.text = RefX \o RefY
        /\ frags[trace[k2].nfrags + 1].text = <<"b">>
        /\ trace[k3].key = "var" /\ trace[k3].item.name = <<"x">> /\ trace[k3].item.value = <<"a">>
        /\ trace[k4].key = "message" /\ trace[k4].item.text = RefX \o RefY
        /\ Len(frags) > trace[k4].nfrags /\ Head(frags[trace[k4].nfrags + 1].text) = "a"

(***************************************************************************)
(* C3  One variable table for the whole traversal                          *)
(***************************************************************************)
\* C3: there is one dict, which every generator refers to, and every item
\* sees each var item processed before it, at whatever depth, unless a
\* later var item of the same name came in between.
C3_OneSharedTable ==
    /\ Len(heap) <= 1
    /\ \A f \in 1..Len(stack) : stack[f].variables = 1
    /\ \A j, k \in 1..Len(trace) :
          (/\ j < k
           /\ trace[j].key = "var"
           /\ \A i \in (j + 1)..(k - 1) :
                 ~(trace[i].key = "var" /\ trace[i].item.name = trace[j].item.name))
          => /\ trace[j].item.name \in DOMAIN trace[k].table
             /\ trace[k].table[trace[j].item.name] = trace[j].item.value

\* a message at the top, after the config item, yielded with the values
\* that var items of the configurations nested once and twice gave x and y
C3_Witness ==
    \E i, j, k \in 1..Len(trace) :
        /\ i < k /\ j < k
        /\ trace[i].key = "var" /\ Len(trace[i].pos) = 2 /\ trace[i].item.name = <<"x">>
        /\ trace[j].key = "var" /\ Len(trace[j].pos) = 3 /\ trace[j].item.name = <<"y">>
        /\ trace[k].key = "message" /\ Len(trace[k].pos) = 1
        /\ frags[trace[k].nfrags + 1].text = trace[i].item.value \o trace[j].item.value

(***************************************************************************)
(* C4  The base directory of a nested configuration                        *)
(***************************************************************************)
\* the base directory the items of the configuration at place p are to be
\* resolved against
BaseDirAt(p) == IF p = <<>> THEN <<".">> ELSE DirName(EventAt(p).path)

\* C4: every item is processed with the base directory of its own
\* configuration: '.' at the top, the directory of the resolved path of the
\* config item that loaded it below; relative paths are joined to that
\* directory, before and after a nested configuration alike.
C4_BaseDirectory ==
    \A k \in 1..Len(trace) :
        LET e == trace[k]
            text == ReplaceVariables(e.item.text, e.table)
        IN /\ e.root_dir = BaseDirAt(Parent(e.pos))
           /\ (e.key \in PathKeys /\ ~IsUrl(text) /\ ~IsAbs(text)) =>
                 e.path = NormPath(PathJoin(BaseDirAt(Parent(e.pos)), text))

\* the file a.t of the nested configuration s/n.j fetched as s/a.t, and
\* after it a.t of the top configuration fetched as a.t
C4_Witness ==
    \E j, k \in 1..Len(trace) :
        /\ j < k
        /\ Len(trace[j].pos) = 2 /\ trace[j].key = "file"
        /\ ReplaceVariables(trace[j].item.text, trace[j].table) = P_a
        /\ trace[j].path = P_sa
        /\ Len(trace[k].pos) = 1 /\ trace[k].key = "file"
        /\ ReplaceVariables(trace[k].item.text, trace[k].table) = P_a
        /\ trace[k].path = P_a
        /\ Len(frags) > trace[k].nfrags

(***************************************************************************)
(* C5  Fail-fast                                                           *)
(***************************************************************************)
\* the n-th fetch or enumeration of the run failed: the fetch raised, or
\* the enumeration raised or found no file
IoFailed(n) ==
    IF io[n].op = "fetch" THEN ~FetchText(io[n].path).ok
    ELSE LET e == EventAt(io[n].pos)
             listed == GetDirectoryFiles(io[n].path, DirExts(e.item.exts), e.item.depth)
         IN ~listed.ok \/ listed.files = <<>>

\* the text of n fragments printed one after the other by main's loop
RECURSIVE Written(_)
Written(n) ==
    IF n = 0 THEN <<>>
    ELSE Written(n - 1) \o (IF n > 1 THEN <<"\n">> ELSE <<>>) \o frags[n].text \o <<"\n">>

\* the run stopped at the n-th fetch or enumeration with one error line
StoppedAt(n) ==
    /\ n = Len(io)
    /\ trace[Len(trace)].pos = io[n].pos
    /\ pc = "done"
    /\ status = 2
    /\ Len(stderr) = 1 /\ Head(stderr[1]) = "Error: "
    /\ io[n].op = "fetch" => stderr[1] = <<"Error: ">> \o FetchText(io[n].path).error
    /\ stdout = Written(Len(frags))

\* C5 as claimed: a failed fetch or enumeration stops the run at that item,
\* with one error line and status 2, and standard output holds no fragment
\* of the failing item or of a later one.
C5_Claimed ==
    \A n \in 1..Len(io) :
        IoFailed(n) =>
            /\ StoppedAt(n)
            /\ \A j \in 1..Len(frags) : PosLess(frags[j].pos, io[n].pos)

\* C5 as amended: the same, except that the fragments of the files of the
\* failing dir item that were fetched before the failing file are written.
C5_FailFast ==
    \A n \in 1..Len(io) :
        IoFailed(n) =>
            /\ StoppedAt(n)
            /\ \A j \in 1..Len(frags) :
                  \/ PosLess(frags[j].pos, io[n].pos)
                  \/ /\ frags[j].pos = io[n].pos
                     /\ io[n].op = "fetch"
                     /\ EventAt(io[n].pos).key = "dir"
                     /\ \E m \in (frags[j].sub + 1)..Len(ListedBy(EventAt(io[n].pos))) :
                           ListedBy(EventAt(io[n].pos))[m] = io[n].path

\* the fetch of the second file of a dir item failed after the fragment of
\* its first file was written
C5_Witness ==
    /\ io # <<>>
    /\ IoFailed(Len(io))
    /\ io[Len(io)].op = "fetch"
    /\ EventAt(io[Len(io)].pos).key = "dir"
    /\ \E j \in 1..Len(frags) : frags[j].pos = io[Len(io)].pos
    /\ status = 2

(***************************************************************************)
(* C6  Validation failures                                                 *)
(***************************************************************************)
\* the run ended on the validation of the configuration built from the
\* command line
TopInvalid ==
    /\ pc = "done" /\ trace = <<>>
    /\ TopConfig.items # <<>>
    /\ ValidateConfig(TopConfig) # <<>>

\* the run ended on the validation of a configuration a config item loaded
NestedInvalid ==
    /\ pc = "done" /\ trace # <<>>
    /\ LET e == trace[Len(trace)]
       IN /\ e.key = "config"
          /\ FetchText(e.path).ok
          /\ JsonLoads(FetchText(e.path).text).ok
          /\ ValidateConfig(LoadedBy(e)) # <<>>

\* C6 as claimed: every validation failure, of the top configuration or of
\* a loaded one, ends the run with status 2 and the single line
\* 'Error: <message>' on the diagnostic stream.
C6_Claimed ==
    (TopInvalid \/ NestedInvalid) =>
        /\ status = 2
        /\ Len(stderr) = 1
        /\ Head(stderr[1]) = "Error: "

(***************************************************************************)
(* C7  Directory items                                                     *)
(***************************************************************************)
\* the indexes of the fragments of the item at place p
FragsOf(p) == {j \in 1..Len(frags) : frags[j].pos = p}

\* C7: a dir item whose enumeration returns no file (as it does whenever
\* its extension list is empty) ends the run with the error
\* 'No files found, "<resolved path>"' and has no fragment; otherwise its
\* fragments are the file fragments of the enumerated files, in place and
\* in enumerator order, all of them once the item is done.
C7_DirItem ==
    \A k \in 1..Len(trace) :
        trace[k].key = "dir" =>
            LET e == trace[k]
                listed == GetDirectoryFiles(e.path, DirExts(e.item.exts), e.item.depth)
                files == listed.files
            IN /\ (listed.ok /\ e.item.exts = <<>>) => files = <<>>
               /\ (listed.ok /\ files = <<>>) =>
                     /\ k = Len(trace) /\ pc = "done" /\ status = 2
                     /\ stderr = <<<<"Error: ", "No files found, ", "\"">> \o e.path \o <<"\"">>>>
                     /\ FragsOf(e.pos) = {}
               /\ (listed.ok /\ files # <<>>) =>
                     /\ \A j \in FragsOf(e.pos) :
                           /\ frags[j].key = "dir"
                           /\ frags[j].sub \in 1..Len(files)
                           /\ j = e.nfrags + frags[j].sub
                           /\ frags[j].text = FileFragment(files[frags[j].sub],
                                                           FetchText(files[frags[j].sub]).text)
                     /\ (k < Len(trace) \/ Finished) =>
                           FragsOf(e.pos) = (e.nfrags + 1)..(e.nfrags + Len(files))

\* a dir item with three files yielded three fragments, and a later dir
\* item without a matching file ended the run
C7_Witness ==
    /\ pc = "done" /\ status = 2 /\ trace # <<>>
    /\ trace[Len(trace)].key = "dir"
    /\ ListedBy(trace[Len(trace)]) = <<>>
    /\ Head(Tail(stderr[1])) = "No files found, "
    /\ \E k \in 1..Len(trace) : trace[k].key = "dir" /\ Cardinality(FragsOf(trace[k].pos)) = 3

(***************************************************************************)
(* C8  The file fragment                                                   *)
(***************************************************************************)
\* the content stored at a resolved path
RawContent(path) == IF IsUrl(path) THEN Urls[path].data ELSE Files[OsPath(path)].content

\* c is raw without its leading and trailing whitespace
IsTrimOf(c, raw) ==
    /\ c = <<>> \/ (c[1] \notin Space /\ c[Len(c)] \notin Space)
    /\ \E a \in 0..Len(raw) :
          /\ a + Len(c) <= Len(raw)
          /\ SubSeq(raw, a + 1, a + Len(c)) = c
          /\ \A i \in (1..a) \cup ((a + Len(c) + 1)..Len(raw)) : raw[i] \in Space

\* C8: the fragment of a file item and of each file of a dir item is
\* '<p>' newline c newline '</p>' for a non-empty trimmed content c and
\* '<p>' newline '</p>' for an empty one, p being the resolved path.
C8_FileFragment ==
    \A j \in 1..Len(frags) :
        frags[j].key \in {"file", "dir"} =>
            LET e == EventAt(frags[j].pos)
                p == IF frags[j].key = "file" THEN Resolved(e.item.text, e.table, e.root_dir)
                     ELSE ListedBy(e)[frags[j].sub]
                c == Strip(RawContent(p))
            IN /\ IsTrimOf(c, RawContent(p))
               /\ frags[j].text =
                     IF c = <<>> THEN <<"<">> \o p \o <<">", "\n", "<", "/">> \o p \o <<">">>
                     ELSE <<"<">> \o p \o <<">", "\n">> \o c \o <<"\n", "<", "/">> \o p \o <<">">>

\* a file item with content and a file of a dir item without, both yielded
C8_Witness ==
    /\ \E j \in 1..Len(frags) :
          /\ frags[j].key = "file"
          /\ frags[j].text = <<"<">> \o P_sa \o <<">", "\n", "S", " ", "S", "\n", "<", "/">> \o P_sa \o <<">">>
    /\ \E j \in 1..Len(frags) :
          /\ frags[j].key = "dir"
          /\ frags[j].text = <<"<">> \o P_dac \o <<">", "\n", "<", "/">> \o P_dac \o <<">">>

(***************************************************************************)
(* C9  Standard output is process_config and a newline                     *)
(***************************************************************************)
\* the top configuration is valid and process_config_items resolves it
\* without error
Resolves ==
    /\ TopConfig.items # <<>>
    /\ ValidateConfig(TopConfig) = <<>>
    /\ ProcessConfigItems(TopConfig, EmptyVariables, <<".">>).ok

\* C9 as claimed: for every configuration that resolves without error,
\* standard output is process_config(config, {}) followed by one newline.
C9_Claimed ==
    (pc = "done" /\ Resolves) =>
        /\ status = 0
        /\ stdout = ProcessConfig(TopConfig, EmptyVariables, <<".">>) \o <<"\n">>

\* C9, amended: for every configuration that resolves without error the
\* run ends with status 0 and the fragments main receives are those of
\* process_config_items(config, {}); with at least one fragment standard
\* output is process_config(config, {}) followed by one newline, one blank
\* line at every fragment boundary, and with no fragment it is empty.
C9_StdoutIsProcessConfig ==
    (pc = "done" /\ Resolves) =>
        /\ status = 0
        /\ [j \in 1..Len(frags) |-> frags[j].text]
               = ProcessConfigItems(TopConfig, EmptyVariables, <<".">>).frags
        /\ stdout = IF frags = <<>> THEN <<>>
                    ELSE ProcessConfig(TopConfig, EmptyVariables, <<".">>) \o <<"\n">>

\* a completed run whose fragments include an empty one between two
\* others, two files of one dir item, and fragments of a nested
\* configuration between fragments of the enclosing one
C9_Witness ==
    /\ Finished
    /\ \E j \in 2..(Len(frags) - 1) : frags[j].text = <<>>
    /\ \E j \in 1..(Len(frags) - 1) :
          frags[j].key = "dir" /\ frags[j + 1].key = "dir" /\ frags[j].pos = frags[j + 1].pos
    /\ \E j \in 1..(Len(frags) - 2) :
          /\ Len(frags[j].pos) < Len(frags[j + 1].pos)
          /\ \E k \in (j + 2)..Len(frags) : Len(frags[k].pos) < Len(frags[j + 1].pos)

(***************************************************************************)
(* C10  The order of a directory's files                                   *)
(***************************************************************************)
\* directory sub is below directory dir
IsBelow(sub, dir) ==
    IF dir = <<>> THEN sub # <<>> ELSE StartsWith(sub, DirPrefix(dir)) /\ sub # dir

\* files is ordered by (containing directory, file name), the files of one
\* directory are contiguous, and a file of a directory comes before the
\* files of its subdirectories
GroupedByDirectory(files) ==
    /\ \A a, b \in 1..Len(files) :
          a < b =>
              \/ StrLess(DirName(files[a]), DirName(files[b]))
              \/ /\ DirName(files[a]) = DirName(files[b])
                 /\ StrLess(SplitTail(files[a]), SplitTail(files[b]))
    /\ \A a, b, c \in 1..Len(files) :
          (a < b /\ b < c /\ DirName(files[a]) = DirName(files[c]))
              => DirName(files[b]) = DirName(files[a])
    /\ \A a, b \in 1..Len(files) :
          IsBelow(DirName(files[b]), DirName(files[a])) => a < b

\* C10: the files every dir item enumerates are grouped by directory
C10_GroupedByDirectory ==
    \A f \in 1..Len(stack) : GroupedByDirectory(stack[f].dir_files)

\* an enumeration in which a file of a directory precedes a file of its
\* subdirectory that a sort of the full paths would put first
C10_Witness ==
    \E f \in 1..Len(stack) :
        \E a, b \in 1..Len(stack[f].dir_files) :
            /\ a < b
            /\ IsBelow(DirName(stack[f].dir_files[b]), DirName(stack[f].dir_files[a]))
            /\ StrLess(stack[f].dir_files[b], stack[f].dir_files[a])

(***************************************************************************)
(* C11  The depth limit of the directory enumeration                       *)
(***************************************************************************)
\* the number of directories between directory dir and file f below it
Level(f, dir) ==
    Len(SplitOn(SubSeq(f, Len(DirPrefix(OsPath(dir))) + 1, Len(f)), "/")) - 1

\* the files below dir whose extension is one of exts
Matching(dir, exts) ==
    {f \in FilesBelow(OsPath(dir)) :
        \E i \in 1..Len(exts) : SplitExt(SplitTail(f)) = exts[i]}

\* the files the claim says an enumeration of dir with max_depth returns
WithinDepth(dir, exts, max_depth) ==
    {f \in Matching(dir, exts) : max_depth = 0 \/ Level(f, dir) <= max_depth - 1}

\* the set of the files a dir item enumerated
ListedSet(e) == {ListedBy(e)[i] : i \in 1..Len(ListedBy(e))}

\* C11: the enumeration of every dir item returns, for max_depth = 0, the
\* matching files at every depth below its directory and, for
\* max_depth = N > 0, exactly the matching files whose directory is at
\* most N-1 levels below it (for N = 1 the files directly inside it).
C11_DepthLimit ==
    \A k \in 1..Len(trace) :
        (/\ trace[k].key = "dir"
         /\ trace[k].item.depth >= 0
         /\ GetDirectoryFiles(trace[k].path, DirExts(trace[k].item.exts), trace[k].item.depth).ok)
        => /\ ListedSet(trace[k])
                 = WithinDepth(trace[k].path, DirExts(trace[k].item.exts), trace[k].item.depth)
           /\ trace[k].item.depth = 1 =>
                 \A f \in ListedSet(trace[k]) : DirName(f) = OsPath(trace[k].path)

\* one dir item with max_depth 1 and one with max_depth 2 have run, each
\* returning a file and leaving out a matching file that lies deeper
C11_Witness ==
    \A n \in {1, 2} :
        \E k \in 1..Len(trace) :
            /\ trace[k].key = "dir"
            /\ trace[k].item.depth = n
            /\ ListedSet(trace[k]) # {}
            /\ Matching(trace[k].path, DirExts(trace[k].item.exts)) \ ListedSet(trace[k]) # {}

(***************************************************************************)
(* C12  Unknown variable references                                        *)
(***************************************************************************)
\* the text of an item that is subject to substitution
ItemText(e) == IF e.key = "long" THEN JoinWith(e.item.lines, <<"\n">>) ELSE e.item.text

\* the indexes of text where a reference starts
RefStarts(text) == {i \in 1..Len(text) : MatchVariable(text, i).end # 0}

\* the names text refers to that table does not define
Unknown(text, table) == {MatchVariable(text, i).name : i \in RefStarts(text)} \ DOMAIN table

\* table with the empty string for each of names it does not define
Blanked(table, names) ==
    [n \in DOMAIN table \cup names |-> IF n \in DOMAIN table THEN table[n] ELSE <<>>]

\* no value of table holds a reference
PlainValues(table) == \A n \in DOMAIN table : RefStarts(table[n]) = {}

\* C12: an item whose text refers to names the table does not define at
\* that moment is processed as if they were defined as the empty string:
\* a message or long item yields its fragment, a config, include, file or
\* dir item goes on to its fetch or enumeration with the path so obtained
\* (nothing is raised), and no reference is left in the fragment or path
\* unless a value of the table holds one.
C12_UnknownIsEmpty ==
    \A k \in 1..Len(trace) :
        LET e == trace[k]
            blanked == Blanked(e.table, Unknown(ItemText(e), e.table))
        IN /\ e.key \in {"message", "long"} =>
                 /\ Len(frags) > e.nfrags
                 /\ frags[e.nfrags + 1].pos = e.pos
                 /\ frags[e.nfrags + 1].text = ReplaceVariables(ItemText(e), blanked)
                 /\ PlainValues(e.table) => RefStarts(frags[e.nfrags + 1].text) = {}
           /\ e.key \in PathKeys =>
                 /\ \E n \in 1..Len(io) : io[n].pos = e.pos /\ io[n].path = e.path
                 /\ e.path = Resolved(e.item.text, blanked, e.root_dir)
                 /\ PlainValues(e.table) => RefStarts(e.path) = {}

\* a dir item, a message item and a long item, each referring to a name the
\* table did not define, have been processed: the directory was enumerated
\* under the path without the reference, the message yielded the empty
\* fragment, and the long item its fragment
C12_Witness ==
    /\ \E k \in 1..Len(trace) :
          /\ trace[k].key = "dir"
          /\ Unknown(trace[k].item.text, trace[k].table) # {}
          /\ trace[k].path = <<"d">>
          /\ Len(frags) > trace[k].nfrags
    /\ \E k \in 1..Len(trace) :
          /\ trace[k].key = "message"
          /\ Unknown(trace[k].item.text, trace[k].table) = {<<"x">>, <<"y">>}
          /\ frags[trace[k].nfrags + 1].text = <<>>
    /\ \E k \in 1..Len(trace) :
          /\ trace[k].key = "long"
          /\ Unknown(ItemText(trace[k]), trace[k].table) # {}
          /\ Len(frags) > trace[k].nfrags

C14_Claimed ==
    \A k \in 1..(Len(trace) - 1) :
        trace[k].key = "var" =>
            /\ trace[k].item.name \in DOMAIN trace[k + 1].table
            /\ trace[k + 1].table[trace[k].item.name]
                   = ReplaceVariables(trace[k].item.value, trace[k].table)
            /\ trace[k + 1].nfrags = trace[k].nfrags

(***************************************************************************)
(* C15  Only var items change the variable table                           *)
(***************************************************************************)
\* the table as the k-th item of the traversal left it: the table the next
\* item found, or for the last item processed the table as it is now
TableAfter(k) == IF k < Len(trace) THEN trace[k + 1].table ELSE heap[1]

\* C15: every config, message, long, include, file and dir item leaves the
\* table as it found it, and a var item leaves a table that differs from
\* the one it found in the entry of its own name at most.
C15_OnlyVarChangesTable ==
    \A k \in 1..Len(trace) :
        IF trace[k].key = "var"
        THEN /\ DOMAIN TableAfter(k) = DOMAIN trace[k].table \cup {trace[k].item.name}
             /\ \A n \in DOMAIN trace[k].table \ {trace[k].item.name} :
                   TableAfter(k)[n] = trace[k].table[n]
        ELSE TableAfter(k) = trace[k].table

\* a var item found an entry of another name and left it as it was beside
\* its own new entry, and an item of each other kind was processed after it
C15_Witness ==
    \E k \in 1..Len(trace) :
        /\ trace[k].key = "var"
        /\ DOMAIN trace[k].table = {<<"x">>}
        /\ trace[k].item.name = <<"y">>
        /\ TableAfter(k) = SetVariable(trace[k].table, <<"y">>, trace[k].item.value)
        /\ \A key \in {"message", "long", "include", "file", "dir"} :
              \E j \in (k + 1)..Len(trace) : trace[j].key = key /\ Len(frags) > trace[j].nfrags
        /\ \E j \in 1..Len(trace) :
              trace[j].key = "config" /\ trace[j].table # EmptyVariables /\ j < Len(trace)

(***************************************************************************)
(* C16  Substitution is a single pass                                      *)
(***************************************************************************)
\* what the character at index i of text becomes: the value of the name
\* (nothing for an unknown name) where a reference starts, nothing inside a
\* reference, itself elsewhere
Piece(text, table, i) ==
    IF i \in RefStarts(text)
    THEN LET name == MatchVariable(text, i).name
         IN IF name \in DOMAIN table THEN table[name] ELSE <<>>
    ELSE IF \E j \in RefStarts(text) : j < i /\ i < MatchVariable(text, j).end
    THEN <<>>
    ELSE <<text[i]>>

RECURSIVE Pieces(_, _, _)
\* the pieces of the first n characters of text, one after the other
Pieces(text, table, n) ==
    IF n = 0 THEN <<>> ELSE Pieces(text, table, n - 1) \o Piece(text, table, n)

\* text with each of its references replaced once and nothing else changed
SinglePass(text, table) == Pieces(text, table, Len(text))

\* the references of a text do not overlap
NoOverlap(text) ==
    \A i, j \in RefStarts(text) : i < j => MatchVariable(text, i).end <= j

\* C16: the fragment of every message and long item, and the path of every
\* config, include, file and dir item before it is resolved, is the item's
\* text with each of its references, which do not overlap, replaced once
\* by the value of its name; the values put in are not scanned, so a
\* reference inside a value stays in the result as it is.
C16_SinglePass ==
    \A k \in 1..Len(trace) :
        LET e == trace[k]
            once == SinglePass(ItemText(e), e.table)
        IN /\ NoOverlap(ItemText(e))
           /\ e.key \in {"message", "long"} => frags[e.nfrags + 1].text = once
           /\ e.key \in PathKeys =>
                 e.path = IF IsUrl(once) \/ IsAbs(once) THEN once
                          ELSE NormPath(PathJoin(e.root_dir, once))

\* with x defined as a and y as {{x}}, the message {{x}}{{ y }} has yielded
\* a{{x}}
C16_Witness ==
    \E k \in 1..Len(trace) :
        /\ trace[k].key = "message"
        /\ trace[k].item.text = RefX \o RefY
        /\ <<"x">> \in DOMAIN trace[k].table /\ trace[k].table[<<"x">>] = <<"a">>
        /\ <<"y">> \in DOMAIN trace[k].table /\ trace[k].table[<<"y">>] = RefX
        /\ frags[trace[k].nfrags + 1].text = <<"a">> \o RefX

(***************************************************************************)
(* C17  The three outcomes of path resolution                              *)
(***************************************************************************)
\* path starts with one or more lowercase letters followed by a colon
HasScheme(path) ==
    \E n \in 1..(Len(path) - 1) :
        /\ \A i \in 1..n : path[i] \in Lower
        /\ path[n + 1] = ":"

\* the segments of a path
Segments(path) == SplitOn(path, "/")

\* path has no empty and no '.' segment, and '..' segments at its front
\* only (or it is '.' itself)
Collapsed(path) ==
    \/ path = <<".">>
    \/ \A i \in 1..Len(Segments(path)) :
          /\ Segments(path)[i] # <<>>
          /\ Segments(path)[i] # <<".">>
          /\ Segments(path)[i] = <<".", ".">> =>
                \A j \in 1..i : Segments(path)[j] = <<".", ".">>

\* the fetches and enumerations made for the item at place p
IoOf(p) == {n \in 1..Len(io) : io[n].pos = p}

\* C17: the path of every config, include, file and dir item is its
\* substituted text unchanged when that starts with lowercase letters and
\* a colon, else unchanged and not normalised when it is absolute, else
\* the text joined to the base directory and normalised; resolving makes
\* no access of its own: the first access for the item is its fetch or
\* enumeration under the resolved path.
C17_ThreeOutcomes ==
    \A k \in 1..Len(trace) :
        trace[k].key \in PathKeys =>
            LET e == trace[k]
                text == SinglePass(e.item.text, e.table)
                first == CHOOSE n \in IoOf(e.pos) : \A m \in IoOf(e.pos) : n <= m
            IN /\ IF HasScheme(text) THEN e.path = text
                  ELSE IF text # <<>> /\ text[1] = "/" THEN e.path = text
                  ELSE /\ e.path = NormPath(PathJoin(e.root_dir, text))
                       /\ Collapsed(e.path)
               /\ IoOf(e.pos) # {}
               /\ io[first].path = e.path
               /\ io[first].op = (IF e.key = "dir" THEN "scan" ELSE "fetch")
               /\ e.key # "dir" => Cardinality(IoOf(e.pos)) = 1

\* a URL fetched as written, an absolute path with a '..' segment fetched
\* as written, and a relative path with '..' segments fetched joined to its
\* base directory and collapsed
C17_Witness ==
    /\ \E k \in 1..Len(trace) :
          /\ trace[k].key = "include" /\ trace[k].path = U_a
          /\ Len(frags) > trace[k].nfrags
    /\ \E k \in 1..Len(trace) :
          /\ trace[k].key = "file"
          /\ trace[k].path = <<"/", "r", "/", ".", ".", "/", "r", "/", "a", ".", "t">>
          /\ Len(frags) > trace[k].nfrags
    /\ \E k \in 1..Len(trace) :
          /\ trace[k].key = "include"
          /\ trace[k].item.text = <<".", ".", "/", ".", ".", "/", "e", ".", "t">>
          /\ trace[k].root_dir = <<"s", "/", "u">>
          /\ trace[k].path = P_e
          /\ Len(frags) > trace[k].nfrags

(***************************************************************************)
(* C18  Substitution comes before path resolution                          *)
(***************************************************************************)
\* the path the claim gives an item: the text substituted under table,
\* then tested and joined
SubstitutedThenResolved(text, table, root_dir) ==
    LET substituted == SinglePass(text, table)
    IN IF HasScheme(substituted) \/ IsAbs(substituted) THEN substituted
       ELSE NormPath(PathJoin(root_dir, substituted))

\* text starts with the opening tag of path and ends with its closing tag
Tagged(text, path) ==
    /\ StartsWith(text, <<"<">> \o path \o <<">", "\n">>)
    /\ Len(text) >= Len(path) + 3
    /\ SubSeq(text, Len(text) - Len(path) - 2, Len(text)) = <<"<", "/">> \o path \o <<">">>

\* C18: for every config, include, file and dir item the path is the text
\* substituted under the table of the var items that precede the item and
\* only then tested for a URL and for an absolute path and joined; the
\* fetch or enumeration is made under that path, the tags of a file item
\* carry it, and the files of a dir item are files below it.
C18_SubstituteThenResolve ==
    \A k \in 1..Len(trace) :
        trace[k].key \in PathKeys =>
            LET e == trace[k]
                path == SubstitutedThenResolved(e.item.text, LatestTable(k), e.root_dir)
            IN /\ e.path = path
               /\ \A n \in IoOf(e.pos) :
                     IF e.key = "dir" /\ io[n].op = "fetch"
                     THEN io[n].path \in ListedSet(e) /\ StartsWith(io[n].path, DirPrefix(path))
                     ELSE io[n].path = path
               /\ \A j \in FragsOf(e.pos) :
                     /\ e.key = "file" => Tagged(frags[j].text, path)
                     /\ e.key = "dir" =>
                           /\ Tagged(frags[j].text, ListedBy(e)[frags[j].sub])
                           /\ StartsWith(ListedBy(e)[frags[j].sub], DirPrefix(path))

\* a file item whose text is relative as written and absolute once
\* substituted has yielded its fragment with the substituted path in the
\* tags, an include item whose text is a URL only once substituted has
\* been fetched from that URL, and a dir item whose text holds a reference
\* has yielded a file below the substituted path
C18_Witness ==
    /\ \E k \in 1..Len(trace) :
          /\ trace[k].key = "file"
          /\ ~IsAbs(trace[k].item.text) /\ IsAbs(trace[k].path)
          /\ Len(frags) > trace[k].nfrags
          /\ Tagged(frags[trace[k].nfrags + 1].text, trace[k].path)
    /\ \E k \in 1..Len(trace) :
          /\ trace[k].key = "include"
          /\ ~HasScheme(trace[k].item.text) /\ trace[k].path = U_ab
          /\ Len(frags) > trace[k].nfrags
          /\ frags[trace[k].nfrags + 1].text = <<"V">>
    /\ \E k \in 1..Len(trace) :
          /\ trace[k].key = "dir"
          /\ RefStarts(trace[k].item.text) # {}
          /\ trace[k].path = <<"d", "/", "a">>
          /\ FragsOf(trace[k].pos) # {}

(***************************************************************************)
(* C19  The blank line between the pieces of file-prompt                   *)
(***************************************************************************)
\* C19 as claimed: when file-prompt has run to its end, standard output is
\* its pieces of output (messages, long messages, file blocks, URL blocks)
\* in order, each followed by a newline, with exactly one blank line
\* between every two consecutive pieces.
C19_Claimed ==
    (pc = "done" /\ status = 0) => stdout = Written(Len(frags))

(***************************************************************************)
(* C20  Output is streamed                                                 *)
(***************************************************************************)
\* the run failed while processing the last item of trace
FailedAtItem == pc = "done" /\ status = 2 /\ trace # <<>>

\* what standard output holds when the run has failed at an item: every
\* fragment yielded before the failure, those of the items before the
\* failing one first and complete, each with the blank line before it
\* (but for the first) and the newline after it
WrittenBeforeFailure ==
    FailedAtItem =>
        LET e == trace[Len(trace)]
        IN /\ [j \in 1..Len(frags) |-> frags[j].text]
                  = ProcessConfigItems(TopConfig, EmptyVariables, <<".">>).frags
           /\ stdout = Written(Len(frags))
           /\ e.nfrags <= Len(frags)
           /\ \A j \in 1..Len(frags) : j <= e.nfrags <=> PosLess(frags[j].pos, e.pos)
           /\ stdout = <<>> <=> frags = <<>>
           /\ stdout = <<>> =>
                 \A k \in 1..(Len(trace) - 1) : trace[k].key \in {"var", "config"}

\* a dir item enumerates before it fetches, and a fetch that fails on its
\* j-th file leaves the fragments of its first j-1 files
EnumeratedThenFetched ==
    \A k \in 1..Len(trace) :
        trace[k].key = "dir" =>
            LET e == trace[k]
                scan == CHOOSE n \in IoOf(e.pos) : \A m \in IoOf(e.pos) : n <= m
            IN /\ io[scan].op = "scan"
               /\ \A n \in IoOf(e.pos) \ {scan} :
                     /\ io[n].op = "fetch"
                     /\ n - scan <= Len(ListedBy(e))
                     /\ io[n].path = ListedBy(e)[n - scan]
                     /\ ~FetchText(io[n].path).ok =>
                           /\ FailedAtItem /\ n = Len(io)
                           /\ FragsOf(e.pos) = (e.nfrags + 1)..(e.nfrags + n - scan - 1)
                           /\ \A j \in FragsOf(e.pos) : frags[j].sub = j - e.nfrags

\* a step takes nothing back: what is on standard output and the fragments
\* yielded stay as they are, more is added at the end only
NothingRetracted ==
    /\ Len(stdout') >= Len(stdout) /\ SubSeq(stdout', 1, Len(stdout)) = stdout
    /\ Len(frags') >= Len(frags) /\ SubSeq(frags', 1, Len(frags)) = frags

\* C20: main streams.  When an item fails, the fragments of the items
\* before it are on standard output, each with its separator and newline,
\* and nothing written is ever taken back; standard output is empty after
\* a failed run only when no fragment-yielding item precedes the failing
\* one; a dir item enumerates all its files before it fetches the first,
\* and a failed fetch of its j-th file leaves the fragments of its first
\* j-1 files written.
C20_Streamed ==
    /\ [](WrittenBeforeFailure /\ EnumeratedThenFetched)
    /\ [][NothingRetracted]_vars

\* a run that failed on the fetch of the second file of a dir item, with
\* the fragment of an earlier item and that of the first file written
C20_Witness ==
    /\ FailedAtItem
    /\ trace[Len(trace)].key = "dir"
    /\ trace[Len(trace)].nfrags >= 1
    /\ io # <<>> /\ io[Len(io)].op = "fetch"
    /\ Len(ListedBy(trace[Len(trace)])) >= 2
    /\ ~FetchText(io[Len(io)].path).ok
    /\ io[Len(io)].path = ListedBy(trace[Len(trace)])[2]
    /\ Len(frags) = trace[Len(trace)].nfrags + 1
    /\ stdout = Written(Len(frags)) /\ stdout # <<>>

====
